---- MODULE Spec2Model ----
(***************************************************************************)
(* Model of duneuro-analytic-solution: the analytic MEG forward solution   *)
(* AnalyticSolutionMEG<FieldType> and its Python bindings (Coordinate,     *)
(* Dipole).                                                                *)
(*                                                                         *)
(* FieldType (double) is modelled as the exact rationals extended with the *)
(* IEEE-754 special values: a value is a pair <<n, d>>, with d > 0 and     *)
(* gcd(n, d) = 1 for a finite value n/d, <<1,0>> for +inf, <<-1,0>> for    *)
(* -inf and <<0,0>> for NaN.  Rounding of +, -, *, / is not modelled; the  *)
(* square root is exact on perfect squares and rounded down to a multiple  *)
(* of 1/SqrtDen otherwise.  The type has a smallest positive value,        *)
(* 2^-MinExp: a product or quotient of smaller magnitude underflows to 0   *)
(* (sums and differences never underflow).  Overflow to infinity is not    *)
(* modelled.  Every zero divisor of the evaluator is a norm or a square,   *)
(* hence +0, so the sign of zero is not modelled.  Equality of results is  *)
(* identity of values (NaN is identical to NaN).                           *)
(***************************************************************************)
EXTENDS Integers, Sequences, FiniteSets, TLC

\* precision of the rounded square root: results are multiples of 1/SqrtDen
SqrtDen == 2

\* the smallest positive FieldType value is 1 / MinDen = 2^-MinExp
MinExp == 16
MinDen == 2 ^ MinExp

\* src/unnamed/part_000:15  static constexpr size_t dim = 3
dim == 3

-----------------------------------------------------------------------------
\* FieldType arithmetic

NaN == <<0, 0>>
PosInf == <<1, 0>>
NegInf == <<-1, 0>>
Zero == <<0, 1>>

Abs(n) == IF n < 0 THEN -n ELSE n
Sgn(n) == IF n < 0 THEN -1 ELSE IF n > 0 THEN 1 ELSE 0

RECURSIVE GCD(_, _)
GCD(m, n) == IF n = 0 THEN m ELSE GCD(n, m % n)

\* the finite value n/d (d > 0) in lowest terms
Rat(n, d) == LET g == GCD(Abs(n), d) IN <<n \div g, d \div g>>

Num(n) == <<n, 1>>

IsNaN(x) == x[2] = 0 /\ x[1] = 0
IsInf(x) == x[2] = 0 /\ x[1] # 0
IsFinite(x) == x[2] > 0
IsZero(x) == x[2] > 0 /\ x[1] = 0

Neg(x) == <<-x[1], x[2]>>

Add(x, y) ==
  IF IsNaN(x) \/ IsNaN(y) THEN NaN
  ELSE IF IsInf(x) /\ IsInf(y) THEN (IF x = y THEN x ELSE NaN)
  ELSE IF IsInf(x) THEN x
  ELSE IF IsInf(y) THEN y
  ELSE LET g == GCD(x[2], y[2])
       IN Rat(x[1] * (y[2] \div g) + y[1] * (x[2] \div g), (x[2] \div g) * y[2])

Sub(x, y) == Add(x, Neg(y))

\* p1/q1 < p2/q2 for p1, p2 >= 0 and q1, q2 > 0, by integer parts and the
\* reciprocals of the fractional parts
RECURSIVE Less(_, _, _, _)
Less(p1, q1, p2, q2) ==
  IF p1 \div q1 # p2 \div q2 THEN p1 \div q1 < p2 \div q2
  ELSE IF p2 % q2 = 0 THEN FALSE
  ELSE IF p1 % q1 = 0 THEN TRUE
  ELSE Less(q2, p2 % q2, q1, p1 % q1)

\* the product (n1/d1) * (n2/d2) of nonzero values lies below 1 / MinDen
Underflows(n1, d1, n2, d2) ==
  Less(2 ^ (MinExp \div 2) * n1, d1, d2, 2 ^ (MinExp - MinExp \div 2) * n2)

Mul(x, y) ==
  IF IsNaN(x) \/ IsNaN(y) THEN NaN
  ELSE IF IsInf(x) \/ IsInf(y)
       THEN (IF IsZero(x) \/ IsZero(y) THEN NaN ELSE <<Sgn(x[1]) * Sgn(y[1]), 0>>)
  ELSE IF IsZero(x) \/ IsZero(y) THEN Zero
  ELSE LET g == GCD(Abs(x[1]), y[2])
           h == GCD(Abs(y[1]), x[2])
       IN IF Underflows(Abs(x[1]) \div g, x[2] \div h, Abs(y[1]) \div h, y[2] \div g)
          THEN Zero
          ELSE Rat((x[1] \div g) * (y[1] \div h), (x[2] \div h) * (y[2] \div g))

\* a zero divisor is +0
Div(x, y) ==
  IF IsNaN(x) \/ IsNaN(y) THEN NaN
  ELSE IF IsInf(x)
       THEN (IF IsInf(y) THEN NaN
             ELSE <<Sgn(x[1]) * (IF y[1] < 0 THEN -1 ELSE 1), 0>>)
  ELSE IF IsInf(y) THEN Zero
  ELSE IF IsZero(y) THEN (IF IsZero(x) THEN NaN ELSE <<Sgn(x[1]), 0>>)
  ELSE Mul(x, <<y[2] * Sgn(y[1]), Abs(y[1])>>)

\* largest k with k*k <= m
RECURSIVE ISqrtFrom(_, _, _)
ISqrtFrom(m, lo, hi) ==
  IF lo = hi THEN lo
  ELSE LET mid == (lo + hi + 1) \div 2
       IN IF mid * mid > m THEN ISqrtFrom(m, lo, mid - 1) ELSE ISqrtFrom(m, mid, hi)
ISqrt(m) == ISqrtFrom(m, 0, IF m < 46340 THEN m ELSE 46340)

\* std::sqrt of a non-negative value
Sqrt(x) ==
  IF IsNaN(x) \/ x[1] < 0 THEN NaN
  ELSE IF IsInf(x) THEN PosInf
  ELSE LET n == ISqrt(x[1])
           d == ISqrt(x[2])
       IN IF n * n = x[1] /\ d * d = x[2] THEN <<n, d>>
          ELSE Rat(ISqrt(x[1] * x[2] * SqrtDen * SqrtDen), x[2] * SqrtDen)

-----------------------------------------------------------------------------
\* Dune::FieldVector<FieldType, 3>: the tuple of its components; component i
\* of the source (i in 0..2) is element i + 1

Idx == 0..(dim - 1)

At(v, i) == v[i + 1]

Vec(x, y, z) == <<Num(x), Num(y), Num(z)>>

VAdd(u, v) == <<Add(u[1], v[1]), Add(u[2], v[2]), Add(u[3], v[3])>>
VSub(u, v) == <<Sub(u[1], v[1]), Sub(u[2], v[2]), Sub(u[3], v[3])>>
\* scalar * vector and vector * scalar
VScale(s, v) == <<Mul(s, v[1]), Mul(s, v[2]), Mul(s, v[3])>>
\* vector / scalar
VDiv(v, s) == <<Div(v[1], s), Div(v[2], s), Div(v[3], s)>>
\* vector * vector: the dot product, summed from component 0
Dot(u, v) == Add(Add(Mul(u[1], v[1]), Mul(u[2], v[2])), Mul(u[3], v[3]))
\* two_norm
two_norm(v) == Sqrt(Dot(v, v))

VFinite(v) == \A i \in Idx : IsFinite(At(v, i))

-----------------------------------------------------------------------------
\* duneuro::Dipole: a record [position, moment]

Dipole(position, moment) == [position |-> position, moment |-> moment]

-----------------------------------------------------------------------------
\* AnalyticSolutionMEG: a record [sphereCenter_, scalingFactor_, moment_, R_0]

\* the constructor initialises sphereCenter_ and scalingFactor_ only; indet
\* is the indeterminate content of moment_ and R_0
AnalyticSolutionMEG(sphereCenter, scalingFactor, indet) ==
  [sphereCenter_ |-> sphereCenter, scalingFactor_ |-> scalingFactor,
   moment_ |-> indet.moment, R_0 |-> indet.position]

crossProduct(vec_1, vec_2) ==
  LET crossProd(i) ==
        LET j == (i + 1) % 3
            k == (i + 2) % 3
        IN Sub(Mul(At(vec_1, j), At(vec_2, k)), Mul(At(vec_1, k), At(vec_2, j)))
  IN <<crossProd(0), crossProd(1), crossProd(2)>>

bind_R_0_NoCenter(self, dipole) ==
  [self EXCEPT !.R_0 = dipole.position]

\* bind's first assignment: R_0 = dipole.position() - sphereCenter_
bind_R_0(self, dipole) ==
  [self EXCEPT !.R_0 = VSub(dipole.position, self.sphereCenter_)]

\* bind's second assignment: moment_ = dipole.moment()
bind_moment_Accumulate(self, dipole) ==
  [self EXCEPT !.moment_ = VAdd(self.moment_, dipole.moment)]

bind_moment(self, dipole) ==
  [self EXCEPT !.moment_ = dipole.moment]

\* the evaluator after bind(dipole)
bind(self, dipole) == bind_moment(bind_R_0(self, dipole), dipole)

totalField_Unscaled(self, coilPos) ==
  LET R == VSub(coilPos, self.sphereCenter_)
      A == VSub(R, self.R_0)
      r == two_norm(R)
      a == two_norm(A)
      F == Mul(a, Sub(Add(Mul(r, a), Mul(r, r)), Dot(self.R_0, R)))
      ARa == Div(Dot(A, R), a)
      grad_F == VSub(VScale(Add(Add(Div(Mul(a, a), r), ARa), Mul(Num(2), Add(a, r))), R),
                     VScale(Add(Add(a, Mul(Num(2), r)), ARa), self.R_0))
      c == crossProduct(self.moment_, self.R_0)
  IN VDiv(VSub(VScale(F, c), VScale(Dot(c, R), grad_F)), Mul(F, F))

\* the locals R, A, r, a and F of totalField
totalField_R(self, coilPos) == VSub(coilPos, self.sphereCenter_)
totalField_A(self, coilPos) == VSub(totalField_R(self, coilPos), self.R_0)
totalField_r(self, coilPos) == two_norm(totalField_R(self, coilPos))
totalField_a(self, coilPos) == two_norm(totalField_A(self, coilPos))

totalField_F_DotA(self, coilPos) ==
  LET R == totalField_R(self, coilPos)
      r == totalField_r(self, coilPos)
      a == totalField_a(self, coilPos)
  IN Mul(a, Sub(Add(Mul(r, a), Mul(r, r)), Dot(self.R_0, totalField_A(self, coilPos))))

totalField_F(self, coilPos) ==
  LET R == totalField_R(self, coilPos)
      r == totalField_r(self, coilPos)
      a == totalField_a(self, coilPos)
  IN Mul(a, Sub(Add(Mul(r, a), Mul(r, r)), Dot(self.R_0, R)))

totalField(self, coilPos) ==
  LET R == totalField_R(self, coilPos)
      A == totalField_A(self, coilPos)
      r == totalField_r(self, coilPos)
      a == totalField_a(self, coilPos)
      F == totalField_F(self, coilPos)
      ARa == Div(Dot(A, R), a)
      grad_F == VSub(VScale(Add(Add(Div(Mul(a, a), r), ARa), Mul(Num(2), Add(a, r))), R),
                     VScale(Add(Add(a, Mul(Num(2), r)), ARa), self.R_0))
      c == crossProduct(self.moment_, self.R_0)
  IN VDiv(VScale(self.scalingFactor_, VSub(VScale(F, c), VScale(Dot(c, R), grad_F))),
          Mul(F, F))

totalFieldDir_Unit(self, coilPos, direction) ==
  Dot(totalField(self, coilPos), VDiv(direction, two_norm(direction)))

totalFieldDir(self, coilPos, direction) ==
  Dot(totalField(self, coilPos), direction)

primaryField_Guarded(self, coilPos) ==
  LET R == VSub(coilPos, self.sphereCenter_)
      diff == VSub(R, self.R_0)
      diffNorm == two_norm(diff)
      diff2 == IF IsZero(diffNorm) THEN diff
               ELSE VDiv(diff, Mul(Mul(diffNorm, diffNorm), diffNorm))
  IN VScale(self.scalingFactor_, crossProduct(self.moment_, diff2))

primaryField(self, coilPos) ==
  LET R == VSub(coilPos, self.sphereCenter_)
      diff == VSub(R, self.R_0)
      diffNorm == two_norm(diff)
      diff2 == VDiv(diff, Mul(Mul(diffNorm, diffNorm), diffNorm))
  IN VScale(self.scalingFactor_, crossProduct(self.moment_, diff2))

primaryFieldDir(self, coilPos, direction) ==
  Dot(primaryField(self, coilPos), direction)

secondaryField_Swapped(self, coilPos) ==
  VSub(totalField(self, coilPos), primaryField(self, coilPos))

secondaryField(self, coilPos) ==
  VSub(primaryField(self, coilPos), totalField(self, coilPos))

secondaryFieldDir(self, coilPos, direction) ==
  Sub(primaryFieldDir(self, coilPos, direction), totalFieldDir(self, coilPos, direction))

-----------------------------------------------------------------------------
\* The Python bindings: Coordinate and Dipole constructors
\*
\* A py::buffer_info is a record [format, ndim, shape, strides, mem]: mem is
\* the memory at info.ptr as a sequence of Scalar-sized items, strides is in
\* items.  A py::list is a sequence of Python objects [kind, val].
\* A constructor returns [raised, obj]: raised when it throws, obj what it
\* returns otherwise.

\* py::format_descriptor<Scalar>::format()
ScalarFormat == "d"

NoDipole == Dipole(<<NaN, NaN, NaN>>, <<NaN, NaN, NaN>>)
Threw(obj) == [raised |-> TRUE, obj |-> obj]
Returned(obj) == [raised |-> FALSE, obj |-> obj]

\* data_ptr[k]
Item(info, k) == info.mem[k + 1]

\* handle.cast<Scalar>() succeeds on Python floats and ints
Castable(handle) == handle.kind \in {"float", "int"}
cast(handle) == handle.val

\* Coordinate(py::buffer)
CoordinateFromBuffer(info) ==
  IF info.format # ScalarFormat THEN Threw(<<NaN, NaN, NaN>>)
  ELSE IF info.ndim # 1 THEN Threw(<<NaN, NaN, NaN>>)
  ELSE IF info.shape[1] # dim THEN Threw(<<NaN, NaN, NaN>>)
  ELSE Returned(<<Item(info, 0), Item(info, 1), Item(info, 2)>>)

\* std::transform(list.begin(), list.end(), coordinate.begin(), cast) on a
\* list of dim elements
TransformList(list) ==
  IF \E k \in 1..Len(list) : ~Castable(list[k]) THEN Threw(<<NaN, NaN, NaN>>)
  ELSE Returned(<<cast(list[1]), cast(list[2]), cast(list[3])>>)

\* Coordinate(py::list)
CoordinateFromList(value_list) ==
  IF Len(value_list) # dim THEN Threw(<<NaN, NaN, NaN>>)
  ELSE TransformList(value_list)

\* Dipole(py::buffer, py::buffer)
DipoleFromBuffers_And(info_position_buffer, info_moment_buffer) ==
  IF info_position_buffer.format # ScalarFormat /\ info_moment_buffer.format # ScalarFormat
    THEN Threw(NoDipole)
  ELSE IF info_position_buffer.ndim # 1 \/ info_moment_buffer.ndim # 1
    THEN Threw(NoDipole)
  ELSE IF info_position_buffer.shape[1] # dim \/ info_moment_buffer.shape[1] # dim
    THEN Threw(NoDipole)
  ELSE Returned(Dipole(
         <<Item(info_position_buffer, 0), Item(info_position_buffer, 1),
           Item(info_position_buffer, 2)>>,
         <<Item(info_moment_buffer, 0), Item(info_moment_buffer, 1),
           Item(info_moment_buffer, 2)>>))

DipoleFromBuffers(info_position_buffer, info_moment_buffer) ==
  IF info_position_buffer.format # ScalarFormat \/ info_moment_buffer.format # ScalarFormat
    THEN Threw(NoDipole)
  ELSE IF info_position_buffer.ndim # 1 \/ info_moment_buffer.ndim # 1
    THEN Threw(NoDipole)
  ELSE IF info_position_buffer.shape[1] # dim \/ info_moment_buffer.shape[1] # dim
    THEN Threw(NoDipole)
  ELSE Returned(Dipole(
         <<Item(info_position_buffer, 0), Item(info_position_buffer, 1),
           Item(info_position_buffer, 2)>>,
         <<Item(info_moment_buffer, 0), Item(info_moment_buffer, 1),
           Item(info_moment_buffer, 2)>>))

\* Dipole(py::buffer): std::copy(data_ptr, data_ptr + dim, position.begin());
\* std::copy(data_ptr + dim, data_ptr + 2 * dim, moment.begin())
DipoleFromBuffer(info_buffer) ==
  IF info_buffer.format # ScalarFormat THEN Threw(NoDipole)
  ELSE IF info_buffer.ndim # 1 THEN Threw(NoDipole)
  ELSE IF info_buffer.shape[1] # 2 * dim THEN Threw(NoDipole)
  ELSE Returned(Dipole(
         <<Item(info_buffer, 0), Item(info_buffer, 1), Item(info_buffer, 2)>>,
         <<Item(info_buffer, dim), Item(info_buffer, dim + 1), Item(info_buffer, dim + 2)>>))

\* Dipole(py::list, py::list)
DipoleFromLists(pos_list, mom_list) ==
  IF Len(pos_list) # dim \/ Len(mom_list) # dim THEN Threw(NoDipole)
  ELSE LET position == TransformList(pos_list)
           moment == TransformList(mom_list)
       IN IF position.raised \/ moment.raised THEN Threw(NoDipole)
          ELSE Returned(Dipole(position.obj, moment.obj))

\* the loop of Dipole(py::list) from element k on: pos_iterator and
\* moment_iterator are offsets into position and moment, pos_end is dim
RECURSIVE CombinedLoop(_, _, _, _, _)
CombinedLoop(combined_list, k, pos_iterator, moment_iterator, acc) ==
  IF k > Len(combined_list) THEN Returned(acc)
  ELSE IF ~Castable(combined_list[k]) THEN Threw(NoDipole)
  ELSE IF pos_iterator # dim
    THEN CombinedLoop(combined_list, k + 1, pos_iterator + 1, moment_iterator,
           [acc EXCEPT !.position[pos_iterator + 1] = cast(combined_list[k])])
    ELSE CombinedLoop(combined_list, k + 1, pos_iterator, moment_iterator + 1,
           [acc EXCEPT !.moment[moment_iterator + 1] = cast(combined_list[k])])

\* Dipole(py::list)
DipoleFromList(combined_list) ==
  IF Len(combined_list) # 2 * dim THEN Threw(NoDipole)
  ELSE CombinedLoop(combined_list, 1, 0, 0, NoDipole)

-----------------------------------------------------------------------------
\* Inputs of the sequential evaluator specification

\* most binds in one run
MaxBinds == 2

Centers == {Vec(0, 0, 0), Vec(1, 0, 0)}
Scalars == {Num(0), Num(1), Num(-2)}
Dipoles == {Dipole(Vec(0, 0, 1), Vec(1, 0, 0)),
            Dipole(Vec(1, 0, 0), Vec(0, 1, 2))}
\* what moment_ and R_0 may hold before the first bind
Indet == {Dipole(Vec(0, 0, 0), Vec(0, 0, 0)), Dipole(Vec(0, 1, 0), Vec(1, 1, 1))}
\* a coordinate whose square underflows
Tiny == <<1, 2 ^ (MinExp \div 2 + 1)>>
Points == {Vec(0, 0, 2), Vec(2, 1, 2), Vec(0, 0, 1), Vec(1, 0, 0)}
\* coil positions around a sphere centred at the origin: next to the centre,
\* the centre, the dipole positions and two points away from them
NearPoints == {<<Tiny, Zero, Zero>>, Vec(0, 0, 0), Vec(0, 0, 1), Vec(1, 0, 0),
               Vec(0, 0, 2), Vec(2, 1, 2)}
Directions == {Vec(0, 0, 1), Vec(1, -2, 2)}

NoVec == <<NaN, NaN, NaN>>
VectorOps == {"totalField", "primaryField", "secondaryField"}
ScalarOps == {"totalFieldDir", "primaryFieldDir", "secondaryFieldDir"}

-----------------------------------------------------------------------------
VARIABLES
  ev,      \* the evaluator object
  binds,   \* the dipoles bound so far, in order
  last,    \* the last call made on the evaluator and what it returned
  mode,    \* how two concurrent callers use evaluators
  evs,     \* the evaluator instances of the concurrent callers
  coil,    \* the point the concurrent callers query
  pc,      \* each caller's position in its bind-then-query sequence
  local,   \* each caller's R_0 as read by its running totalField
  res,     \* what each caller's totalField read and returned
  lock,    \* the callers' external mutex: its holder, or 0
  pyD,     \* the Dipole object of the Python script, if any
  pyCtor,  \* the position and moment pyD was constructed with
  pyV,     \* the Coordinate the script holds: its own, or one inside pyD
  pyCall,  \* the last call of the script
  pyOut,   \* whether that call raised, and the value it returned
  pyOps    \* the number of calls made on the Coordinate

seqVars == <<ev, binds, last>>
conVars == <<mode, evs, coil, pc, local, res, lock>>
pyVars == <<pyD, pyCtor, pyV, pyCall, pyOut, pyOps>>
vars == <<ev, binds, last, mode, evs, coil, pc, local, res, lock,
          pyD, pyCtor, pyV, pyCall, pyOut, pyOps>>

Call(op, coilPos, direction, resultV, resultS) ==
  [op |-> op, coilPos |-> coilPos, direction |-> direction,
   resultV |-> resultV, resultS |-> resultS]

Callers == {1, 2}
NoRes == [R_0 |-> NoVec, moment_ |-> NoVec, value |-> NoVec]

SeqInit ==
  /\ \E c \in Centers, s \in Scalars, u \in Indet : ev = AnalyticSolutionMEG(c, s, u)
  /\ binds = <<>>
  /\ last = Call("new", NoVec, NoVec, NoVec, NaN)

ConIdle ==
  /\ mode = "none"
  /\ evs = <<>>
  /\ coil = NoVec
  /\ pc = [t \in Callers |-> "done"]
  /\ local = [t \in Callers |-> NoVec]
  /\ res = [t \in Callers |-> NoRes]
  /\ lock = 0

NoCall == [fn |-> "none", defect |-> "none", index |-> 0,
           position |-> NoVec, moment |-> NoVec]
NoOut == [raised |-> FALSE, value |-> NaN]
NoCoordinate == [ref |-> "none", value |-> NoVec]

PyIdle ==
  /\ pyD = [alive |-> FALSE, position |-> NoVec, moment |-> NoVec]
  /\ pyCtor = NoDipole
  /\ pyV = NoCoordinate
  /\ pyCall = NoCall
  /\ pyOut = NoOut
  /\ pyOps = 0

Init == SeqInit /\ ConIdle /\ PyIdle

Bind(dipole) ==
  /\ Len(binds) < MaxBinds
  /\ ev' = bind(ev, dipole)
  /\ binds' = Append(binds, dipole)
  /\ last' = Call("bind", NoVec, NoVec, NoVec, NaN)
  /\ UNCHANGED <<conVars, pyVars>>

TotalField_Caches(coilPos) ==
  /\ last' = Call("totalField", coilPos, NoVec, totalField(ev, coilPos), NaN)
  /\ ev' = [ev EXCEPT !.R_0 = VSub(coilPos, ev.sphereCenter_)]
  /\ UNCHANGED binds
  /\ UNCHANGED <<conVars, pyVars>>

TotalField(coilPos) ==
  /\ last' = Call("totalField", coilPos, NoVec, totalField(ev, coilPos), NaN)
  /\ UNCHANGED <<ev, binds>>
  /\ UNCHANGED <<conVars, pyVars>>

TotalFieldDir(coilPos, direction) ==
  /\ last' = Call("totalFieldDir", coilPos, direction, NoVec,
                  totalFieldDir(ev, coilPos, direction))
  /\ UNCHANGED <<ev, binds>>
  /\ UNCHANGED <<conVars, pyVars>>

PrimaryField(coilPos) ==
  /\ last' = Call("primaryField", coilPos, NoVec, primaryField(ev, coilPos), NaN)
  /\ UNCHANGED <<ev, binds>>
  /\ UNCHANGED <<conVars, pyVars>>

PrimaryFieldDir(coilPos, direction) ==
  /\ last' = Call("primaryFieldDir", coilPos, direction, NoVec,
                  primaryFieldDir(ev, coilPos, direction))
  /\ UNCHANGED <<ev, binds>>
  /\ UNCHANGED <<conVars, pyVars>>

SecondaryField(coilPos) ==
  /\ last' = Call("secondaryField", coilPos, NoVec, secondaryField(ev, coilPos), NaN)
  /\ UNCHANGED <<ev, binds>>
  /\ UNCHANGED <<conVars, pyVars>>

SecondaryFieldDir(coilPos, direction) ==
  /\ last' = Call("secondaryFieldDir", coilPos, direction, NoVec,
                  secondaryFieldDir(ev, coilPos, direction))
  /\ UNCHANGED <<ev, binds>>
  /\ UNCHANGED <<conVars, pyVars>>

Next ==
  \/ \E d \in Dipoles : Bind(d)
  \/ \E p \in Points : TotalField(p)
  \/ \E p \in Points, d \in Directions : TotalFieldDir(p, d)
  \/ \E p \in Points : PrimaryField(p)
  \/ \E p \in Points, d \in Directions : PrimaryFieldDir(p, d)
  \/ \E p \in Points : SecondaryField(p)
  \/ \E p \in Points, d \in Directions : SecondaryFieldDir(p, d)

Spec == Init /\ [][Next]_vars

-----------------------------------------------------------------------------
\* The evaluator of a sphere centred at the origin, queried at NearPoints

OriginInit ==
  /\ \E s \in Scalars, u \in Indet : ev = AnalyticSolutionMEG(Vec(0, 0, 0), s, u)
  /\ binds = <<>>
  /\ last = Call("new", NoVec, NoVec, NoVec, NaN)

InitNear == OriginInit /\ ConIdle /\ PyIdle

NearNext ==
  \/ \E d \in Dipoles : Bind(d)
  \/ \E p \in NearPoints : TotalField(p)
  \/ \E p \in NearPoints, d \in Directions : TotalFieldDir(p, d)
  \/ \E p \in NearPoints : PrimaryField(p)
  \/ \E p \in NearPoints, d \in Directions : PrimaryFieldDir(p, d)
  \/ \E p \in NearPoints : SecondaryField(p)
  \/ \E p \in NearPoints, d \in Directions : SecondaryFieldDir(p, d)

SpecNear == InitNear /\ [][NearNext]_vars

-----------------------------------------------------------------------------
\* Two concurrent callers.  Each runs bind(its dipole) and then
\* totalField(coil).  The evaluator has no lock of its own, so the two member
\* writes of bind and the member reads of totalField are separate steps that
\* interleave with the other caller's.  mode says what the callers do about
\* it: "shared" (one instance, nothing else), "private" (an instance each) or
\* "locked" (one instance, each sequence under a mutex of the callers).

Modes == {"shared", "private", "locked"}

\* the dipole caller t binds
DipoleOf(t) ==
  IF t = 1 THEN Dipole(Vec(0, 0, 1), Vec(1, 0, 0)) ELSE Dipole(Vec(1, 1, 0), Vec(0, 1, 2))

\* the instance caller t uses
InstanceOf(t) == IF mode = "private" THEN t ELSE 1

IdleSeq ==
  /\ ev = AnalyticSolutionMEG(Vec(0, 0, 0), Num(1), Dipole(Vec(0, 0, 0), Vec(0, 0, 0)))
  /\ binds = <<>>
  /\ last = Call("new", NoVec, NoVec, NoVec, NaN)

ConInit ==
  /\ mode \in Modes
  /\ \E c \in Centers, s \in Scalars, u \in Indet :
       evs = [i \in Callers |-> AnalyticSolutionMEG(c, s, u)]
  /\ coil \in Points
  /\ pc = [t \in Callers |-> "start"]
  /\ local = [t \in Callers |-> NoVec]
  /\ res = [t \in Callers |-> NoRes]
  /\ lock = 0

\* the caller enters its sequence, taking the mutex when the callers use one
Enter(t) ==
  /\ pc[t] = "start"
  /\ IF mode = "locked" THEN lock = 0 /\ lock' = t ELSE lock' = lock
  /\ pc' = [pc EXCEPT ![t] = "bind_R_0"]
  /\ UNCHANGED <<mode, evs, coil, local, res>>
  /\ UNCHANGED <<seqVars, pyVars>>

\* bind, first assignment
BindR0(t) ==
  /\ pc[t] = "bind_R_0"
  /\ evs' = [evs EXCEPT ![InstanceOf(t)] = bind_R_0(@, DipoleOf(t))]
  /\ pc' = [pc EXCEPT ![t] = "bind_moment"]
  /\ UNCHANGED <<mode, coil, local, res, lock>>
  /\ UNCHANGED <<seqVars, pyVars>>

\* bind, second assignment
BindMoment(t) ==
  /\ pc[t] = "bind_moment"
  /\ evs' = [evs EXCEPT ![InstanceOf(t)] = bind_moment(@, DipoleOf(t))]
  /\ pc' = [pc EXCEPT ![t] = "read_R_0"]
  /\ UNCHANGED <<mode, coil, local, res, lock>>
  /\ UNCHANGED <<seqVars, pyVars>>

\* totalField reads R_0 (A = R - R_0)
ReadR0(t) ==
  /\ pc[t] = "read_R_0"
  /\ local' = [local EXCEPT ![t] = evs[InstanceOf(t)].R_0]
  /\ pc' = [pc EXCEPT ![t] = "read_moment"]
  /\ UNCHANGED <<mode, evs, coil, res, lock>>
  /\ UNCHANGED <<seqVars, pyVars>>

\* totalField reads moment_ (crossProduct(moment_, R_0)) and returns
ReadMoment(t) ==
  /\ pc[t] = "read_moment"
  /\ LET seen == [evs[InstanceOf(t)] EXCEPT !.R_0 = local[t]]
     IN res' = [res EXCEPT ![t] = [R_0 |-> seen.R_0, moment_ |-> seen.moment_,
                                   value |-> totalField(seen, coil)]]
  /\ pc' = [pc EXCEPT ![t] = "leave"]
  /\ UNCHANGED <<mode, evs, coil, local, lock>>
  /\ UNCHANGED <<seqVars, pyVars>>

\* the caller leaves its sequence, releasing the mutex when it holds it
Leave(t) ==
  /\ pc[t] = "leave"
  /\ lock' = IF lock = t THEN 0 ELSE lock
  /\ pc' = [pc EXCEPT ![t] = "done"]
  /\ UNCHANGED <<mode, evs, coil, local, res>>
  /\ UNCHANGED <<seqVars, pyVars>>

ConNext ==
  \E t \in Callers :
    \/ Enter(t)
    \/ BindR0(t)
    \/ BindMoment(t)
    \/ ReadR0(t)
    \/ ReadMoment(t)
    \/ Leave(t)

InitCallers == IdleSeq /\ ConInit /\ PyIdle

SpecCallers == InitCallers /\ [][ConNext]_vars

-----------------------------------------------------------------------------
\* A Python script constructing Coordinates and Dipoles

\* longest buffer or list passed to a constructor
MaxLen == 7

Formats == {"d", "l"}
Shapes == {<<>>, <<dim, 2>>, <<2 * dim, 1>>} \cup {<<n>> : n \in 2..MaxLen}
Strides == {1, 2}

RECURSIVE Product(_)
Product(shape) == IF shape = <<>> THEN 1 ELSE Head(shape) * Product(Tail(shape))

\* a buffer whose memory holds base, base + 1, ...
Buffer(format, shape, stride, base) ==
  [format |-> format, ndim |-> Len(shape), shape |-> shape,
   strides |-> [k \in 1..Len(shape) |-> stride],
   mem |-> [k \in 1..(Product(shape) * stride) |-> Num(base + k - 1)]]

Buffers(base) ==
  {Buffer(f, sh, st, base) : f \in Formats, sh \in Shapes, st \in Strides}

\* a list holding base, base + 1, ... as floats, but for element at
Kinds == {"float", "int", "str"}
List(n, base, at, kind) ==
  [k \in 1..n |-> [kind |-> IF k = at THEN kind ELSE "float", val |-> Num(base + k - 1)]]

Lists(base) ==
  {List(n, base, at, kind) : n \in 2..MaxLen, at \in {1, 2}, kind \in Kinds}

\* element k of a 1-dimensional buffer, as the buffer protocol defines it
Logical(info, k) == info.mem[k * info.strides[1] + 1]

\* what is wrong with an input that should hold count elements
DefectiveBuffer(info, count) ==
  \/ info.format # "d"
  \/ info.ndim # 1
  \/ Product(info.shape) # count

DefectiveList(list, count) ==
  \/ Len(list) # count
  \/ \E k \in 1..Len(list) : list[k].kind = "str"

Defect(first, second) ==
  IF first /\ second THEN "both"
  ELSE IF first THEN "first" ELSE IF second THEN "second" ELSE "none"

PyCall(fn, defect, index, position, moment) ==
  [fn |-> fn, defect |-> defect, index |-> index, position |-> position, moment |-> moment]

Own(value) == [ref |-> "own", value |-> value]

\* the script's variables after a Coordinate constructor returned r
CoordinateMade(r) ==
  /\ pyV' = IF r.raised THEN pyV ELSE Own(r.obj)
  /\ pyOut' = [raised |-> r.raised, value |-> NaN]
  /\ UNCHANGED <<pyD, pyCtor, pyOps>>

\* the script's variables after a Dipole constructor returned r; a Coordinate
\* inside the replaced Dipole is dropped with it
DipoleMade(r) ==
  /\ pyD' = IF r.raised THEN pyD
            ELSE [alive |-> TRUE, position |-> r.obj.position, moment |-> r.obj.moment]
  /\ pyCtor' = IF r.raised THEN pyCtor ELSE r.obj
  /\ pyV' = IF r.raised \/ pyV.ref = "own" THEN pyV ELSE NoCoordinate
  /\ pyOut' = [raised |-> r.raised, value |-> NaN]
  /\ UNCHANGED pyOps

\* Coordinate(x): every component is x
NewCoordinateScalar(x) ==
  /\ pyCall' = PyCall("Coordinate(scalar)", "none", 0, NoVec, NoVec)
  /\ CoordinateMade(Returned(<<x, x, x>>))
  /\ UNCHANGED <<seqVars, conVars>>

NewCoordinateBuffer(info) ==
  /\ pyCall' = PyCall("Coordinate(buffer)", Defect(DefectiveBuffer(info, dim), FALSE),
                      0, NoVec, NoVec)
  /\ CoordinateMade(CoordinateFromBuffer(info))
  /\ UNCHANGED <<seqVars, conVars>>

NewCoordinateList(list) ==
  /\ pyCall' = PyCall("Coordinate(list)", Defect(DefectiveList(list, dim), FALSE),
                      0, NoVec, NoVec)
  /\ CoordinateMade(CoordinateFromList(list))
  /\ UNCHANGED <<seqVars, conVars>>

\* Dipole(position, moment) from two Coordinates
NewDipoleCoordinates(position, moment) ==
  /\ pyCall' = PyCall("Dipole(Coordinate,Coordinate)", "none", 0, position, moment)
  /\ DipoleMade(Returned(Dipole(position, moment)))
  /\ UNCHANGED <<seqVars, conVars>>

NewDipoleBuffers(position_buffer, moment_buffer) ==
  /\ pyCall' = PyCall("Dipole(buffer,buffer)",
                      Defect(DefectiveBuffer(position_buffer, dim),
                             DefectiveBuffer(moment_buffer, dim)),
                      0, NoVec, NoVec)
  /\ DipoleMade(DipoleFromBuffers(position_buffer, moment_buffer))
  /\ UNCHANGED <<seqVars, conVars>>

NewDipoleBuffer(buffer) ==
  /\ pyCall' =
       IF DefectiveBuffer(buffer, 2 * dim)
       THEN PyCall("Dipole(buffer)", "first", 0, NoVec, NoVec)
       ELSE PyCall("Dipole(buffer)", "none", 0,
                   <<Logical(buffer, 0), Logical(buffer, 1), Logical(buffer, 2)>>,
                   <<Logical(buffer, 3), Logical(buffer, 4), Logical(buffer, 5)>>)
  /\ DipoleMade(DipoleFromBuffer(buffer))
  /\ UNCHANGED <<seqVars, conVars>>

NewDipoleLists(pos_list, mom_list) ==
  /\ pyCall' = PyCall("Dipole(list,list)",
                      Defect(DefectiveList(pos_list, dim), DefectiveList(mom_list, dim)),
                      0, NoVec, NoVec)
  /\ DipoleMade(DipoleFromLists(pos_list, mom_list))
  /\ UNCHANGED <<seqVars, conVars>>

NewDipoleList(list) ==
  /\ pyCall' =
       IF DefectiveList(list, 2 * dim)
       THEN PyCall("Dipole(list)", "first", 0, NoVec, NoVec)
       ELSE PyCall("Dipole(list)", "none", 0,
                   <<list[1].val, list[2].val, list[3].val>>,
                   <<list[4].val, list[5].val, list[6].val>>)
  /\ DipoleMade(DipoleFromList(list))
  /\ UNCHANGED <<seqVars, conVars>>

CoordinateValues == {Vec(0, 0, 1), Vec(1, 0, 0)}

PyNext ==
  \/ \E x \in {Num(0), Num(1)} : NewCoordinateScalar(x)
  \/ \E b \in Buffers(0) : NewCoordinateBuffer(b)
  \/ \E l \in Lists(0) : NewCoordinateList(l)
  \/ \E p \in CoordinateValues, m \in CoordinateValues : NewDipoleCoordinates(p, m)
  \/ \E b1 \in Buffers(0), b2 \in Buffers(10) : NewDipoleBuffers(b1, b2)
  \/ \E b \in Buffers(0) : NewDipoleBuffer(b)
  \/ \E l1 \in Lists(0), l2 \in Lists(10) : NewDipoleLists(l1, l2)
  \/ \E l \in Lists(0) : NewDipoleList(l)

InitPy == IdleSeq /\ ConIdle /\ PyIdle

SpecPy == InitPy /\ [][PyNext]_vars

-----------------------------------------------------------------------------
\* A Python script reading and writing the Coordinates of a Dipole

\* most writing calls in one run
MaxOps == 2
\* largest index passed to __getitem__ and __setitem__
MaxIndex == 4

Indices == -1..MaxIndex
SetValues == {Num(9)}
ScalarArgs == {Num(2)}
CoordinateArgs == {Vec(1, 1, 1)}
\* what a read past the end of the array may return
Beyond == {Num(0), Num(7)}

\* the C++ object the script's Coordinate refers to
Deref ==
  IF pyV.ref = "own" THEN pyV.value
  ELSE IF pyV.ref = "position" THEN pyD.position ELSE pyD.moment

\* that object gets the value c
Store(c) ==
  /\ pyV' = IF pyV.ref = "own" THEN Own(c) ELSE pyV
  /\ pyD' = IF pyV.ref = "position" THEN [pyD EXCEPT !.position = c]
            ELSE IF pyV.ref = "moment" THEN [pyD EXCEPT !.moment = c]
            ELSE pyD

\* coordinate[index] of __getitem__: FieldVector::operator[] checks the index
\* only in a build with bounds checking; otherwise the read is past the array
getitem(coordinate, index) ==
  IF index \in Idx THEN {Returned(At(coordinate, index))}
  ELSE {Threw(NaN)} \cup {Returned(g) : g \in Beyond}

\* coordinate[index] = value of __setitem__: likewise; the unchecked write
\* lands outside the Coordinate
setitem(coordinate, index, value) ==
  IF index \in Idx THEN {Returned([coordinate EXCEPT ![index + 1] = value])}
  ELSE {Threw(coordinate), Returned(coordinate)}

\* d.position() with return_value_policy::reference_internal: the Python
\* object refers to the Coordinate inside the Dipole
Position ==
  /\ pyD.alive
  /\ pyV' = [ref |-> "position", value |-> NoVec]
  /\ pyCall' = PyCall("position", "none", 0, NoVec, NoVec)
  /\ pyOut' = NoOut
  /\ UNCHANGED <<pyD, pyCtor, pyOps>>
  /\ UNCHANGED <<seqVars, conVars>>

Moment ==
  /\ pyD.alive
  /\ pyV' = [ref |-> "moment", value |-> NoVec]
  /\ pyCall' = PyCall("moment", "none", 0, NoVec, NoVec)
  /\ pyOut' = NoOut
  /\ UNCHANGED <<pyD, pyCtor, pyOps>>
  /\ UNCHANGED <<seqVars, conVars>>

\* v[index]; a negative index does not convert to size_t and the call is
\* refused before the lambda runs
GetItem(index) ==
  /\ pyV.ref # "none"
  /\ pyCall' = PyCall("__getitem__", "none", index, NoVec, NoVec)
  /\ IF index < 0 THEN pyOut' = [raised |-> TRUE, value |-> NaN]
     ELSE \E r \in getitem(Deref, index) : pyOut' = [raised |-> r.raised, value |-> r.obj]
  /\ UNCHANGED <<pyD, pyCtor, pyV, pyOps>>
  /\ UNCHANGED <<seqVars, conVars>>

\* v[index] = value
SetItem(index, value) ==
  /\ pyV.ref # "none"
  /\ pyOps < MaxOps
  /\ pyOps' = pyOps + 1
  /\ pyCall' = PyCall("__setitem__", "none", index, NoVec, NoVec)
  /\ IF index < 0
     THEN pyOut' = [raised |-> TRUE, value |-> NaN] /\ UNCHANGED <<pyD, pyV>>
     ELSE \E r \in setitem(Deref, index, value) :
            pyOut' = [raised |-> r.raised, value |-> NaN] /\ Store(r.obj)
  /\ UNCHANGED pyCtor
  /\ UNCHANGED <<seqVars, conVars>>

\* an in-place operator called on v leaves the object of v with the value c
InPlace(fn, c) ==
  /\ pyV.ref # "none"
  /\ pyOps < MaxOps
  /\ pyOps' = pyOps + 1
  /\ pyCall' = PyCall(fn, "none", 0, NoVec, NoVec)
  /\ pyOut' = NoOut
  /\ Store(c)
  /\ UNCHANGED pyCtor
  /\ UNCHANGED <<seqVars, conVars>>

IAdd(w) == InPlace("+=", VAdd(Deref, w))
ISub(w) == InPlace("-=", VSub(Deref, w))
IAddScalar(x) == InPlace("+= scalar", VAdd(Deref, <<x, x, x>>))
ISubScalar(x) == InPlace("-= scalar", VSub(Deref, <<x, x, x>>))
IMulScalar(x) == InPlace("*= scalar", VScale(x, Deref))
IDivScalar(x) == InPlace("/= scalar", VDiv(Deref, x))

InitAccess ==
  /\ IdleSeq
  /\ ConIdle
  /\ \E d \in Dipoles :
       /\ pyD = [alive |-> TRUE, position |-> d.position, moment |-> d.moment]
       /\ pyCtor = d
  /\ pyV = NoCoordinate
  /\ pyCall = NoCall
  /\ pyOut = NoOut
  /\ pyOps = 0

AccessNext ==
  \/ \E x \in {Num(0), Num(1)} : NewCoordinateScalar(x)
  \/ Position
  \/ Moment
  \/ \E i \in Indices : GetItem(i)
  \/ \E i \in Indices, x \in SetValues : SetItem(i, x)
  \/ \E w \in CoordinateArgs : IAdd(w)
  \/ \E w \in CoordinateArgs : ISub(w)
  \/ \E x \in ScalarArgs : IAddScalar(x)
  \/ \E x \in ScalarArgs : ISubScalar(x)
  \/ \E x \in ScalarArgs : IMulScalar(x)
  \/ \E x \in ScalarArgs : IDivScalar(x)

SpecAccess == InitAccess /\ [][AccessNext]_vars

-----------------------------------------------------------------------------
\* Claims about the evaluator, under Spec

\* what a query named op returns on evaluator e
EvalV(op, e, coilPos) ==
  CASE op = "totalField" -> totalField(e, coilPos)
    [] op = "primaryField" -> primaryField(e, coilPos)
    [] op = "secondaryField" -> secondaryField(e, coilPos)

EvalS(op, e, coilPos, direction) ==
  CASE op = "totalFieldDir" -> totalFieldDir(e, coilPos, direction)
    [] op = "primaryFieldDir" -> primaryFieldDir(e, coilPos, direction)
    [] op = "secondaryFieldDir" -> secondaryFieldDir(e, coilPos, direction)

\* the vector overload of a scalar overload
VectorOf(op) ==
  CASE op = "totalFieldDir" -> "totalField"
    [] op = "primaryFieldDir" -> "primaryField"
    [] op = "secondaryFieldDir" -> "secondaryField"

IsQuery(c) == c.op \in VectorOps \cup ScalarOps
LastBound == binds[Len(binds)]

\* evaluators with ev's configuration that were only ever bound to dipole
OnlyBoundTo(dipole) ==
  {bind(AnalyticSolutionMEG(ev.sphereCenter_, ev.scalingFactor_, u), dipole) : u \in Indet}

\* C1: after bind(D1) then bind(D2) the bound state is D2's alone, and every
\* query returns what an evaluator with the same sphereCenter and
\* scalingFactor that was only ever bound to D2 returns.
C1_RebindOverwrites ==
  Len(binds) >= 2 =>
    \A f \in OnlyBoundTo(LastBound) :
      /\ ev.R_0 = VSub(LastBound.position, ev.sphereCenter_)
      /\ ev.moment_ = LastBound.moment
      /\ ev = f
      /\ last.op \in VectorOps => last.resultV = EvalV(last.op, f, last.coilPos)
      /\ last.op \in ScalarOps =>
           last.resultS = EvalS(last.op, f, last.coilPos, last.direction)

\* a query after two binds of dipoles that differ in position and moment,
\* whose finite result is not what the first dipole would have given
C1_Witness ==
  /\ Len(binds) = 2
  /\ binds[1].position # binds[2].position
  /\ binds[1].moment # binds[2].moment
  /\ last.op \in VectorOps
  /\ VFinite(last.resultV)
  /\ last.resultV # EvalV(last.op, bind(ev, binds[1]), last.coilPos)

\* C2: secondaryField(p) is primaryField(p) - totalField(p), componentwise,
\* on the bound state the call was made on.
C2_SecondaryIsPrimaryMinusTotal ==
  last.op = "secondaryField" =>
    \A i \in Idx :
      At(last.resultV, i) = Sub(At(primaryField(ev, last.coilPos), i),
                                At(totalField(ev, last.coilPos), i))

\* a finite secondary field on a bound evaluator for which the order of the
\* subtraction matters
C2_Witness ==
  /\ Len(binds) >= 1
  /\ last.op = "secondaryField"
  /\ VFinite(last.resultV)
  /\ last.resultV # VSub(totalField(ev, last.coilPos), primaryField(ev, last.coilPos))

\* C3: for each field, the scalar overload field(p, d) equals the dot
\* product of the vector overload field(p) with d, for any d.
C3_ScalarIsDotOfVector ==
  last.op \in ScalarOps =>
    last.resultS = Dot(EvalV(VectorOf(last.op), ev, last.coilPos), last.direction)

\* secondaryField(p, d) with a direction that is not a unit vector and a
\* finite, nonzero result
C3_Witness ==
  /\ Len(binds) >= 1
  /\ last.op = "secondaryFieldDir"
  /\ Dot(last.direction, last.direction) # Num(1)
  /\ IsFinite(last.resultS)
  /\ ~IsZero(last.resultS)
  /\ ~IsZero(totalFieldDir(ev, last.coilPos, last.direction))

\* an evaluator like ev but constructed with scalingFactor s2 and bound to
\* the dipole ev is bound to
Rescaled(s2) ==
  {bind(AnalyticSolutionMEG(ev.sphereCenter_, s2, u), LastBound) : u \in Indet}

\* C4 as claimed: for s2 # 0 and any s1,
\* totalField_2(p) = (s2 / s1) * totalField_1(p).
C4_ScalingAsClaimed ==
  (Len(binds) >= 1 /\ last.op = "totalField") =>
    \A s2 \in Scalars \ {Zero} : \A e2 \in Rescaled(s2) :
      totalField(e2, last.coilPos) = VScale(Div(s2, ev.scalingFactor_), last.resultV)

\* C4 amended: the same, for s1 # 0.
C4_ScalingLinear ==
  (Len(binds) >= 1 /\ last.op = "totalField" /\ ~IsZero(ev.scalingFactor_)) =>
    \A s2 \in Scalars \ {Zero} : \A e2 \in Rescaled(s2) :
      totalField(e2, last.coilPos) = VScale(Div(s2, ev.scalingFactor_), last.resultV)

\* a finite, nonzero total field of an evaluator with a scalingFactor other
\* than 0 and 1
C4_Witness ==
  /\ Len(binds) >= 1
  /\ last.op = "totalField"
  /\ ev.scalingFactor_ = Num(-2)
  /\ VFinite(last.resultV)
  /\ \E i \in Idx : ~IsZero(At(last.resultV, i))

\* C5: no step changes sphereCenter_ or scalingFactor_; a query changes
\* nothing of the evaluator, so the query repeated on the state it leaves
\* returns the same result.
C5_QueriesArePure ==
  [][/\ ev'.sphereCenter_ = ev.sphereCenter_
     /\ ev'.scalingFactor_ = ev.scalingFactor_
     /\ (IsQuery(last') /\ last' # last) =>
          /\ ev' = ev
          /\ last'.op \in VectorOps =>
               last'.resultV = EvalV(last'.op, ev', last'.coilPos)
          /\ last'.op \in ScalarOps =>
               last'.resultS = EvalS(last'.op, ev', last'.coilPos, last'.direction)
    ]_vars

\* a query made after the last bind that left the bound state as bind set it
C5_Witness ==
  /\ Len(binds) = MaxBinds
  /\ last.op = "totalField"
  /\ VFinite(last.resultV)
  /\ \E i \in Idx : ~IsZero(At(last.resultV, i))
  /\ ev = bind(ev, LastBound)

\* C11: primaryField(coilPos) with coilPos equal to the bound dipole's
\* position returns: its result has a non-finite component (the quotient by
\* the zero ||R - R_0||^3), it is not the zero vector, and the evaluator is
\* as it was before the call.
C11_CoincidentCoilNonFinite ==
  [][(/\ last' # last
      /\ last'.op = "primaryField"
      /\ Len(binds) >= 1
      /\ last'.coilPos = LastBound.position) =>
       /\ ev' = ev
       /\ binds' = binds
       /\ \E i \in Idx : ~IsFinite(At(last'.resultV, i))
       /\ \E i \in Idx : ~IsZero(At(last'.resultV, i))
    ]_vars

\* primaryField has returned for the position of the bound dipole, on an
\* evaluator whose scalingFactor and moment are not zero, and every
\* component is NaN
C11_Witness ==
  /\ Len(binds) >= 1
  /\ last.op = "primaryField"
  /\ last.coilPos = LastBound.position
  /\ ev = bind(ev, LastBound)
  /\ ~IsZero(ev.scalingFactor_)
  /\ \A i \in Idx : IsNaN(At(last.resultV, i))

-----------------------------------------------------------------------------
\* Claims about the denominators of totalField, under SpecNear

ZeroVec == Vec(0, 0, 0)

\* C12 as claimed: in totalField on a bound evaluator, whenever F is nonzero
\* the divisors r and a are nonzero too, so that no division of totalField
\* (by r, by a, by F * F) has a zero denominator.
C12_OnlyFDegenerate ==
  (Len(binds) >= 1 /\ last.op = "totalField") =>
    LET r == totalField_r(ev, last.coilPos)
        a == totalField_a(ev, last.coilPos)
        F == totalField_F(ev, last.coilPos)
    IN ~IsZero(F) => (~IsZero(r) /\ ~IsZero(a) /\ ~IsZero(Mul(F, F)))

\* C12 amended: whenever F is finite and nonzero and neither squared norm
\* has underflowed (R * R is zero only for R = 0, A * A only for A = 0), the
\* divisors r and a are nonzero.
C12_NormsVanishWithF ==
  (Len(binds) >= 1 /\ last.op = "totalField") =>
    LET R == totalField_R(ev, last.coilPos)
        A == totalField_A(ev, last.coilPos)
        r == totalField_r(ev, last.coilPos)
        a == totalField_a(ev, last.coilPos)
        F == totalField_F(ev, last.coilPos)
    IN (/\ IsFinite(F)
        /\ ~IsZero(F)
        /\ IsZero(Dot(R, R)) => R = ZeroVec
        /\ IsZero(Dot(A, A)) => A = ZeroVec) =>
         (~IsZero(r) /\ ~IsZero(a))

\* totalField has returned a finite, nonzero field on a bound evaluator for a
\* point with F, r and a nonzero
C12_Witness ==
  /\ Len(binds) >= 1
  /\ last.op = "totalField"
  /\ ev = bind(ev, LastBound)
  /\ ~IsZero(totalField_F(ev, last.coilPos))
  /\ ~IsZero(totalField_r(ev, last.coilPos))
  /\ ~IsZero(totalField_a(ev, last.coilPos))
  /\ VFinite(last.resultV)
  /\ \E i \in Idx : ~IsZero(At(last.resultV, i))

-----------------------------------------------------------------------------
\* Claims about concurrent callers, under SpecCallers

\* the evaluator state caller t bound, and what totalField returns on it
BoundBy(t) ==
  [sphereCenter_ |-> evs[1].sphereCenter_, scalingFactor_ |-> evs[1].scalingFactor_,
   moment_ |-> DipoleOf(t).moment,
   R_0 |-> VSub(DipoleOf(t).position, evs[1].sphereCenter_)]

Against(t, u) ==
  /\ res[t].R_0 = BoundBy(u).R_0
  /\ res[t].moment_ = BoundBy(u).moment_
  /\ res[t].value = totalField(BoundBy(u), coil)

\* C6: with a private instance per caller, or with each bind+query sequence
\* under the callers' mutex, every query is evaluated against the dipole the
\* same caller bound last.
C6_IsolatedCallersSeeOwnDipole ==
  \A t \in Callers :
    (mode \in {"private", "locked"} /\ pc[t] \in {"leave", "done"}) => Against(t, t)

\* C6, the race: on a shared instance without mutual exclusion a caller's
\* query was evaluated against the other caller's dipole, with another result
C6_Witness ==
  /\ mode = "shared"
  /\ \E t \in Callers : \E u \in Callers \ {t} :
       /\ pc[t] = "done"
       /\ Against(t, u)
       /\ res[t].value # totalField(BoundBy(t), coil)
       /\ VFinite(res[t].value)

\* the race, torn: R_0 of one caller's dipole with moment of the other's
C6_TornRead ==
  /\ mode = "shared"
  /\ \E t \in Callers : \E u \in Callers \ {t} :
       /\ pc[t] = "done"
       /\ res[t].R_0 = BoundBy(u).R_0
       /\ res[t].moment_ = BoundBy(t).moment_
       /\ res[t].value # totalField(BoundBy(t), coil)
       /\ res[t].value # totalField(BoundBy(u), coil)

-----------------------------------------------------------------------------
\* Claims about the Python bindings, under SpecAccess and SpecPy

\* C7: position() and moment() of a Dipole always return the values the
\* Dipole was constructed with.
C7_DipoleImmutable ==
  pyD.alive => (pyD.position = pyCtor.position /\ pyD.moment = pyCtor.moment)

\* C8: a Coordinate or Dipole constructor given a buffer or list of the
\* wrong element type, dimensionality or element count raises and produces
\* no object; for the two-input forms a defect in either input is enough.
C8_DefectiveInputRejected ==
  [][pyCall'.defect # "none" =>
       /\ pyOut'.raised
       /\ pyD' = pyD
       /\ pyCtor' = pyCtor
       /\ pyV' = pyV
    ]_vars

\* Dipole(buffer, buffer) with a sound first and a defective second buffer
\* raised, and the Dipole made before it is still the script's Dipole
C8_Witness ==
  /\ pyCall.fn = "Dipole(buffer,buffer)"
  /\ pyCall.defect = "second"
  /\ pyOut.raised
  /\ pyD.alive
  /\ pyD.position = pyCtor.position

\* C9: a Dipole accepted from one 6-element buffer or list has the first
\* three elements as position() and the last three as moment().
C9_CombinedInputOrder ==
  (pyCall.fn \in {"Dipole(buffer)", "Dipole(list)"} /\ ~pyOut.raised) =>
    (pyD.position = pyCall.position /\ pyD.moment = pyCall.moment)

\* C10: __getitem__ and __setitem__ with an index outside 0..2 raise and
\* leave the Coordinate unchanged; with an index in 0..2 they read or write
\* that component and leave the other two unchanged.
C10_IndexChecked ==
  [][pyCall'.fn \in {"__getitem__", "__setitem__"} =>
       IF pyCall'.index \notin Idx
       THEN pyOut'.raised /\ Deref' = Deref
       ELSE /\ ~pyOut'.raised
            /\ \A j \in Idx \ {pyCall'.index} : At(Deref', j) = At(Deref, j)
            /\ pyCall'.fn = "__getitem__" =>
                 (Deref' = Deref /\ pyOut'.value = At(Deref, pyCall'.index))
            /\ pyCall'.fn = "__setitem__" => At(Deref', pyCall'.index) \in SetValues
    ]_vars
====
